---- MODULE Spec2Model ----
(***************************************************************************)
(* A model of MPD's ServerSocket (src/src/event/ServerSocket.cxx): the     *)
(* ordered group of OneServerSocket listeners, the add-request calls that  *)
(* populate it, and the aggregate Open / Close protocol with its           *)
(* per-serial partial-failure policy.                                      *)
(***************************************************************************)
EXTENDS Integers, Sequences, FiniteSets

VARIABLES
    sockets,      \* ServerSocket::sockets, in insertion order
    next_serial,  \* ServerSocket::next_serial
    fs,           \* the filesystem entries at the local-socket paths
    ndebug,       \* whether this build compiles assert() away (NDEBUG)
    aborted,      \* the process was ended by a failed assert()
    calls,        \* history: number of add-request calls that appended
    last          \* history: what the most recent call did and returned

vars == <<sockets, next_serial, fs, ndebug, aborted, calls, last>>

----------------------------------------------------------------------------
(* Bounds of the model *)

\* the most listeners the group is grown to
MaxSockets == 2

----------------------------------------------------------------------------
(* Inputs *)

\* `unsigned port` arguments tried with AddPort: both edges of (0, 0xffff]
PortInputs == {0, 65535, 65536}

\* the ports AddHost is called with (AddHost does not validate its port)
HostPorts == {6600}

\* paths handed to AddPath
Paths == {"/run/mpd.sock"}

\* the errno socket_bind_listen() fails with
Errnos == {"EADDRINUSE"}

\* the outcome of one bind attempt
BindOutcomes == {"ok"} \cup Errnos

Inet6Any(port) == [family |-> "inet6", name |-> "::", port |-> port % 65536]
InetAny(port) == [family |-> "inet", name |-> "0.0.0.0", port |-> port % 65536]
Local(path) == [family |-> "local", name |-> path, port |-> 0]

\* what resolve_host_port() may return for the host: a non-empty address list
ResolverResults(port) ==
    { <<[family |-> "inet", name |-> "127.0.0.1", port |-> port]>>,
      <<[family |-> "inet6", name |-> "::1", port |-> port],
        [family |-> "inet", name |-> "127.0.0.1", port |-> port]>> }

\* local addresses getsockname() may report for an imported descriptor
FdAddresses == { [family |-> "inet", name |-> "0.0.0.0", port |-> 6601] }

\* what accept_cloexec_nonblock() may return: -1 or the peer's descriptor
PeerFds == {-1, 7}

\* what get_remote_uid() may return: -1 (unknown) or the peer's uid
PeerUids == {-1, 1000}

----------------------------------------------------------------------------
(* Error values (util/Error) *)

NoError == [defined |-> FALSE, prefix |-> <<>>, msg |-> ""]

\* Error::Set(domain, msg)
ErrorSet(msg) == [defined |-> TRUE, prefix |-> <<>>, msg |-> msg]

\* Error::FormatPrefix / Error::AddPrefix: the prefix goes in front
ErrorPrefix(e, p) == [e EXCEPT !.prefix = <<p>> \o @]

----------------------------------------------------------------------------
(* The filesystem at the local-socket paths *)

\* RemoveFile(path): unlink(2) removes a file or socket; it fails on a
\* directory and on a missing entry, and leaves the filesystem as it was
RemoveFile(f, path) ==
    IF f[path].kind = "socket"
    THEN [f EXCEPT ![path] = [kind |-> "absent", mode |-> "none"]]
    ELSE f

\* socket_bind_listen(): the environment decides (want), but bind(2) on a
\* local address whose path exists always fails with EADDRINUSE
BindListen(address, f, want) ==
    IF address.family = "local" /\ f[address.name].kind # "absent"
    THEN "EADDRINUSE"
    ELSE want

\* what a successful bind(2) leaves in the filesystem
BindCreates(address, f) ==
    IF address.family = "local"
    THEN [f EXCEPT ![address.name] = [kind |-> "socket", mode |-> "umask"]]
    ELSE f

\* chmod(path, 0666)
Chmod0666(f, path) ==
    IF f[path].kind # "absent" THEN [f EXCEPT ![path].mode = "0666"] ELSE f

----------------------------------------------------------------------------
(* OneServerSocket *)

\* the constructor: an unopened listener without a path
OneServerSocket(serial, address, req) ==
    [serial |-> serial, address |-> address, path |-> "",
     open |-> FALSE, scheduled |-> FALSE,
     req |-> req, wasClosed |-> FALSE]

SetPath(s, path) == [s EXCEPT !.path = path]

IsDefined(s) == s.open

\* SocketMonitor::Open(fd) + ScheduleRead()
SetFD(s) == [s EXCEPT !.open = TRUE, !.scheduled = TRUE]

\* SocketMonitor::Close(): unregisters and closes the descriptor
OneClose(s) == [s EXCEPT !.open = FALSE, !.scheduled = FALSE, !.wasClosed = TRUE]

\* ::ToString(address): the textual form of a socket address
AddressToString(a) ==
    CASE a.family = "inet6" -> <<"[", a.name, "]:", a.port>>
      [] a.family = "inet" -> <<a.name, ":", a.port>>
      [] OTHER -> <<a.name>>

ToString(s) == AddressToString(s.address)

\* OneServerSocket::Open that registers the monitor before it looks at
\* the result of socket_bind_listen()
OneOpen_RegisterOnFailure(s, f, want) ==
    LET r == BindListen(s.address, f, want)
        f1 == BindCreates(s.address, f)
    IN  IF r # "ok"
        THEN [ok |-> FALSE, error |-> ErrorSet(r),
              s |-> [s EXCEPT !.scheduled = TRUE], fs |-> f]
        ELSE [ok |-> TRUE, error |-> NoError, s |-> SetFD(s),
              fs |-> IF s.path # "" THEN Chmod0666(f1, s.path) ELSE f1]

\* OneServerSocket::Open that does its chmod() before it looks at the
\* result of socket_bind_listen()
OneOpen_ChmodBeforeBind(s, f, want) ==
    LET r == BindListen(s.address, f, want)
        f1 == BindCreates(s.address, f)
    IN  IF r # "ok"
        THEN [ok |-> FALSE, error |-> ErrorSet(r), s |-> s,
              fs |-> IF s.path # "" THEN Chmod0666(f, s.path) ELSE f]
        ELSE [ok |-> TRUE, error |-> NoError, s |-> SetFD(s),
              fs |-> IF s.path # "" THEN Chmod0666(f1, s.path) ELSE f1]

\* OneServerSocket::Open after its assert: bind, chmod, register
OneOpen(s, f, want) ==
    LET r == BindListen(s.address, f, want)
        f1 == BindCreates(s.address, f)
    IN  IF r # "ok"
        THEN [ok |-> FALSE, error |-> ErrorSet(r), s |-> s, fs |-> f]
        ELSE [ok |-> TRUE, error |-> NoError, s |-> SetFD(s),
              fs |-> IF s.path # "" THEN Chmod0666(f1, s.path) ELSE f1]

\* Accept() that returns when socket_keepalive() fails
Accept_KeepaliveFatal(s, peer_fd, keepalive, uid) ==
    IF peer_fd < 0
    THEN [accepts |-> <<>>, log |-> <<"accept() failed">>]
    ELSE IF keepalive # 0
    THEN [accepts |-> <<>>, log |-> <<"Could not set TCP keepalive option">>]
    ELSE [accepts |-> <<[fd |-> peer_fd, uid |-> uid]>>, log |-> <<>>]

\* OneServerSocket::Accept(): the OnAccept calls it makes on the parent
\* and the messages it logs; keepalive is what socket_keepalive() returns
Accept(s, peer_fd, keepalive, uid) ==
    IF peer_fd < 0
    THEN [accepts |-> <<>>, log |-> <<"accept() failed">>]
    ELSE [accepts |-> <<[fd |-> peer_fd, uid |-> uid]>>,
          log |-> IF keepalive # 0
                  THEN <<"Could not set TCP keepalive option">> ELSE <<>>]

\* the event loop calls OnSocketReady() of the monitors that are
\* registered for reading
Dispatches(s) == s.scheduled

----------------------------------------------------------------------------
(* ServerSocket::Close and ServerSocket::Open *)

\* Close() whose loop starts one listener too late
CloseAll_ButFirst(socks) ==
    [i \in 1..Len(socks) |->
        IF i > 1 /\ IsDefined(socks[i]) THEN OneClose(socks[i]) ELSE socks[i]]

\* ServerSocket::Close(): close every listener that is defined
CloseAll(socks) ==
    [i \in 1..Len(socks) |->
        IF IsDefined(socks[i]) THEN OneClose(socks[i]) ELSE socks[i]]

\* the locals of ServerSocket::Open before its loop; good and bad are
\* positions in the list, 0 for nullptr; results is history (what each
\* bind attempt returned, "none" where none was made)
OpenInit(socks, f) ==
    [socks |-> socks, fs |-> f, good |-> 0, bad |-> 0,
     last_error |-> NoError, warnings |-> <<>>,
     results |-> [i \in 1..Len(socks) |-> "none"],
     asserts |-> {}]

\* the two asserts at the head of the loop body
HeadAsserts(st, i) ==
    (IF st.socks[i].serial > 0 THEN {} ELSE {"serial > 0"})
    \cup (IF st.good = 0 \/ st.socks[i].serial >= st.socks[st.good].serial
          THEN {} ELSE {"serial >= good"})

\* Open without the early exit: a pending failure is carried into the
\* next serial
SerialBoundary_Never(st, i) == FALSE

\* the early exit at the head of the loop body: a failure is pending and
\* this listener belongs to another serial
SerialBoundary(st, i) ==
    st.bad # 0 /\ st.socks[i].serial # st.socks[st.bad].serial

\* OpenFail that destroys the listeners instead of closing them
OpenFail_Clear(st) ==
    [ret |-> "false", error |-> st.last_error, socks |-> <<>>,
     fs |-> st.fs, warnings |-> st.warnings, results |-> st.results,
     asserts |-> st.asserts]

\* OpenFail without its Close(): the listeners bound so far stay open
OpenFail_NoClose(st) ==
    [ret |-> "false", error |-> st.last_error, socks |-> st.socks,
     fs |-> st.fs, warnings |-> st.warnings, results |-> st.results,
     asserts |-> st.asserts]

\* Close(); error = std::move(last_error); return false;
OpenFail(st) ==
    [ret |-> "false", error |-> st.last_error, socks |-> CloseAll(st.socks),
     fs |-> st.fs, warnings |-> st.warnings, results |-> st.results,
     asserts |-> st.asserts]

\* return true;
OpenSucceed(st) ==
    [ret |-> "true", error |-> NoError, socks |-> st.socks,
     fs |-> st.fs, warnings |-> st.warnings, results |-> st.results,
     asserts |-> st.asserts]

\* a failed assert() in a build that keeps them: abort()
OpenAbort(st) ==
    [ret |-> "abort", error |-> NoError, socks |-> st.socks,
     fs |-> st.fs, warnings |-> st.warnings, results |-> st.results,
     asserts |-> st.asserts]

\* OnBindFailure that forgives whenever some listener is good, without
\* comparing the serials
OnBindFailure_AnyGood(st, i, error2) ==
    IF st.good # 0
    THEN [st EXCEPT !.warnings =
            Append(@, [failed |-> ToString(st.socks[i]), cause |-> error2.msg,
                       good |-> ToString(st.socks[st.good])])]
    ELSE IF st.bad = 0
    THEN [st EXCEPT !.bad = i,
                    !.last_error = ErrorPrefix(error2,
                        <<"Failed to bind to", ToString(st.socks[i])>>)]
    ELSE st

\* OnBindFailure without the bad == nullptr test: every unforgiven
\* failure replaces the recorded one
OnBindFailure_Overwrite(st, i, error2) ==
    IF st.good # 0 /\ st.socks[st.good].serial = st.socks[i].serial
    THEN [st EXCEPT !.warnings =
            Append(@, [failed |-> ToString(st.socks[i]), cause |-> error2.msg,
                       good |-> ToString(st.socks[st.good])])]
    ELSE [st EXCEPT !.bad = i,
                    !.last_error = ErrorPrefix(error2,
                        <<"Failed to bind to", ToString(st.socks[i])>>)]

\* i.Open(error2) failed with error2
OnBindFailure(st, i, error2) ==
    IF st.good # 0 /\ st.socks[st.good].serial = st.socks[i].serial
    THEN [st EXCEPT !.warnings =
            Append(@, [failed |-> ToString(st.socks[i]), cause |-> error2.msg,
                       good |-> ToString(st.socks[st.good])])]
    ELSE IF st.bad = 0
    THEN [st EXCEPT !.bad = i,
                    !.last_error = ErrorPrefix(error2,
                        <<"Failed to bind to", ToString(st.socks[i])>>)]
    ELSE st

\* OnBindSuccess that forgets to clear the pending failure
OnBindSuccess_KeepBad(st, i) ==
    [st EXCEPT !.good = i]

\* i.Open(error2) succeeded: mark this socket as "good", and clear
\* previous errors
OnBindSuccess(st, i) ==
    [st EXCEPT !.good = i, !.bad = 0, !.last_error = NoError]

\* the loop body for listener i, starting at i.Open(error2)
OpenOne(st, i, want) ==
    LET s == st.socks[i]
        r == OneOpen(s, st.fs, want)
        st1 == [st EXCEPT !.socks[i] = r.s, !.fs = r.fs,
                          !.results[i] = IF r.ok THEN "ok" ELSE r.error.msg,
                          !.asserts = @ \cup (IF IsDefined(s)
                                              THEN {"!IsDefined()"} ELSE {})]
    IN  IF r.ok THEN OnBindSuccess(st1, i) ELSE OnBindFailure(st1, i, r.error)

RECURSIVE OpenFrom(_, _, _, _)
\* the loop of ServerSocket::Open from listener i on, and what follows it;
\* nd says whether assert() is compiled away
OpenFrom(st, i, outcome, nd) ==
    IF i > Len(st.socks)
    THEN IF st.bad # 0 THEN OpenFail(st) ELSE OpenSucceed(st)
    ELSE LET st0 == [st EXCEPT !.asserts = @ \cup HeadAsserts(st, i)]
         IN  IF HeadAsserts(st, i) # {} /\ ~nd THEN OpenAbort(st0)
             ELSE IF SerialBoundary(st0, i) THEN OpenFail(st0)
             ELSE IF IsDefined(st0.socks[i]) /\ ~nd
             THEN OpenAbort([st0 EXCEPT !.asserts = @ \cup {"!IsDefined()"}])
             ELSE OpenFrom(OpenOne(st0, i, outcome[i]), i + 1, outcome, nd)

\* ServerSocket::Open(error)
ServerSocketOpen(socks, f, outcome, nd) ==
    OpenFrom(OpenInit(socks, f), 1, outcome, nd)

----------------------------------------------------------------------------
(* The add-request calls *)

\* ServerSocket::AddAddress: emplace_back under the current next_serial;
\* req is history: the number of the add-request call and its name
AddAddress(socks, serial, address, req) ==
    Append(socks, OneServerSocket(serial, address, req))

\* the argument check without its upper limit
InvalidPort_NoUpper(port) == port = 0

\* the argument check of ServerSocket::AddPort
InvalidPort(port) == port = 0 \/ port > 65535

\* ServerSocket::AddPort(port, error); ipv6 is what SupportsIPv6() returns
AddPortCall(socks, serial, req, port, ipv6) ==
    IF InvalidPort(port)
    THEN [ret |-> "false", error |-> ErrorSet("Invalid TCP port"),
          socks |-> socks, next_serial |-> serial, sys |-> {}]
    ELSE LET by == [n |-> req, by |-> "AddPort"]
             s6 == IF ipv6 THEN AddAddress(socks, serial, Inet6Any(port), by)
                   ELSE socks
         IN  [ret |-> "true", error |-> NoError,
              socks |-> AddAddress(s6, serial, InetAny(port), by),
              next_serial |-> serial + 1, sys |-> {"socket"}]

RECURSIVE AddAll_SerialPerAddress(_, _, _, _)
\* the loop of AddHost with ++next_serial inside it
AddAll_SerialPerAddress(socks, serial, ai, req) ==
    IF ai = <<>> THEN socks
    ELSE AddAll_SerialPerAddress(AddAddress(socks, serial, Head(ai), req),
                                 serial + 1, Tail(ai), req)

RECURSIVE AddAll(_, _, _, _)
\* the loop of ServerSocket::AddHost over the resolved addresses
AddAll(socks, serial, ai, req) ==
    IF ai = <<>> THEN socks
    ELSE AddAll(AddAddress(socks, serial, Head(ai), req), serial, Tail(ai), req)

\* ServerSocket::AddHost(hostname, port, error); ai is what
\* resolve_host_port() returns, <<>> for nullptr with resolveError set
AddHostCall(socks, serial, req, ai, resolveError) ==
    IF ai = <<>>
    THEN [ret |-> "false", error |-> resolveError,
          socks |-> socks, next_serial |-> serial, sys |-> {"getaddrinfo"}]
    ELSE [ret |-> "true", error |-> NoError,
          socks |-> AddAll(socks, serial, ai, [n |-> req, by |-> "AddHost"]),
          next_serial |-> serial + 1, sys |-> {"getaddrinfo"}]

\* ServerSocket::AddPath(path, error)
AddPathCall(socks, serial, req, f, path) ==
    LET added == AddAddress(socks, serial, Local(path),
                            [n |-> req, by |-> "AddPath"])
        n == Len(added)
    IN  [ret |-> "true", error |-> NoError,
         socks |-> [added EXCEPT ![n] = SetPath(added[n], path)],
         next_serial |-> serial, sys |-> {"unlink"},
         fs |-> RemoveFile(f, path)]

\* AddFD that takes a serial of its own, as the other add-requests do
AddFDCall_Bump(socks, serial, req, address, errno) ==
    IF errno # ""
    THEN [ret |-> "false",
          error |-> ErrorPrefix(ErrorSet(errno), <<"Failed to get socket address">>),
          socks |-> socks, next_serial |-> serial, sys |-> {"getsockname"}]
    ELSE LET added == AddAddress(socks, serial, address,
                                 [n |-> req, by |-> "AddFD"])
             n == Len(added)
         IN  [ret |-> "true", error |-> NoError,
              socks |-> [added EXCEPT ![n] = SetFD(added[n])],
              next_serial |-> serial + 1, sys |-> {"getsockname"}]

\* AddFD that hands the descriptor to sockets.front() instead of the
\* listener it has just appended
AddFDCall_SetFront(socks, serial, req, address, errno) ==
    IF errno # ""
    THEN [ret |-> "false",
          error |-> ErrorPrefix(ErrorSet(errno), <<"Failed to get socket address">>),
          socks |-> socks, next_serial |-> serial, sys |-> {"getsockname"}]
    ELSE LET added == AddAddress(socks, serial, address,
                                 [n |-> req, by |-> "AddFD"])
         IN  [ret |-> "true", error |-> NoError,
              socks |-> [added EXCEPT ![1] = SetFD(added[1])],
              next_serial |-> serial, sys |-> {"getsockname"}]

\* AddFD that tags its listener with serial 0, outside every group
AddFDCall_SerialZero(socks, serial, req, address, errno) ==
    IF errno # ""
    THEN [ret |-> "false",
          error |-> ErrorPrefix(ErrorSet(errno), <<"Failed to get socket address">>),
          socks |-> socks, next_serial |-> serial, sys |-> {"getsockname"}]
    ELSE LET added == AddAddress(socks, 0, address,
                                 [n |-> req, by |-> "AddFD"])
             n == Len(added)
         IN  [ret |-> "true", error |-> NoError,
              socks |-> [added EXCEPT ![n] = SetFD(added[n])],
              next_serial |-> serial, sys |-> {"getsockname"}]

\* ServerSocket::AddFD(fd, error); errno is what getsockname() fails with,
\* "" when it succeeds and reports address
AddFDCall(socks, serial, req, address, errno) ==
    IF errno # ""
    THEN [ret |-> "false",
          error |-> ErrorPrefix(ErrorSet(errno), <<"Failed to get socket address">>),
          socks |-> socks, next_serial |-> serial, sys |-> {"getsockname"}]
    ELSE LET added == AddAddress(socks, serial, address,
                                 [n |-> req, by |-> "AddFD"])
             n == Len(added)
         IN  [ret |-> "true", error |-> NoError,
              socks |-> [added EXCEPT ![n] = SetFD(added[n])],
              next_serial |-> serial, sys |-> {"getsockname"}]

----------------------------------------------------------------------------
(* The state machine *)

\* what a call other than Open leaves in the history variable
Returned(op, r) ==
    [op |-> op, ret |-> r.ret, error |-> r.error, sys |-> r.sys,
     results |-> <<>>, warnings |-> <<>>, asserts |-> {},
     listener |-> 0, accepts |-> <<>>, log |-> <<>>]

Init ==
    /\ sockets = <<>>
    /\ next_serial = 1
    /\ fs = [p \in Paths |-> [kind |-> "absent", mode |-> "none"]]
    /\ ndebug \in BOOLEAN
    /\ aborted = FALSE
    /\ calls = 0
    /\ last = [op |-> "new", ret |-> "void", error |-> NoError, sys |-> {},
               results |-> <<>>, warnings |-> <<>>, asserts |-> {},
               listener |-> 0, accepts |-> <<>>, log |-> <<>>]

\* an add-request call returned r
Added(op, r) ==
    /\ Len(r.socks) <= MaxSockets
    /\ sockets' = r.socks
    /\ next_serial' = r.next_serial
    /\ calls' = IF r.ret = "true" THEN calls + 1 ELSE calls
    /\ last' = Returned(op, r)
    /\ UNCHANGED <<ndebug, aborted>>

\* AddPort(port) in a kernel where SupportsIPv6() returns ipv6
AddPortWith(port, ipv6) ==
    /\ ~aborted
    /\ Added("AddPort", AddPortCall(sockets, next_serial, calls + 1, port, ipv6))
    /\ UNCHANGED fs

AddPort == \E port \in PortInputs, ipv6 \in BOOLEAN : AddPortWith(port, ipv6)

\* AddHost(hostname, port) where resolve_host_port() returns ai, or
\* nullptr (<<>>) with resolveError
AddHostWith(port, ai, resolveError) ==
    /\ ~aborted
    /\ Added("AddHost",
             AddHostCall(sockets, next_serial, calls + 1, ai, resolveError))
    /\ UNCHANGED fs

AddHost ==
    \E port \in HostPorts :
        \/ \E ai \in ResolverResults(port) : AddHostWith(port, ai, NoError)
        \/ AddHostWith(port, <<>>, ErrorSet("EAI_NONAME"))

\* AddPath(path)
AddPathWith(path) ==
    /\ ~aborted
    /\ \E r \in {AddPathCall(sockets, next_serial, calls + 1, fs, path)} :
          Added("AddPath", r) /\ fs' = r.fs

AddPath == \E path \in Paths : AddPathWith(path)

AddFD ==
    /\ ~aborted
    /\ \E address \in FdAddresses :
          \/ Added("AddFD",
                   AddFDCall(sockets, next_serial, calls + 1, address, ""))
          \/ Added("AddFD",
                   AddFDCall(sockets, next_serial, calls + 1, address, "ENOTSOCK"))
    /\ UNCHANGED fs

\* Open() where the bind of listener i, if attempted, meets outcome[i]
OpenWith(outcome) ==
    /\ ~aborted
    /\ \E r \in {ServerSocketOpen(sockets, fs, outcome, ndebug)} :
          /\ sockets' = r.socks
          /\ fs' = r.fs
          /\ aborted' = (r.ret = "abort")
          /\ last' = [op |-> "Open", ret |-> r.ret, error |-> r.error,
                      sys |-> IF \E i \in 1..Len(sockets) : r.results[i] # "none"
                              THEN {"socket"} ELSE {},
                      results |-> r.results, warnings |-> r.warnings,
                      asserts |-> r.asserts,
                      listener |-> 0, accepts |-> <<>>, log |-> <<>>]
    /\ UNCHANGED <<next_serial, ndebug, calls>>

Open == \E outcome \in [1..Len(sockets) -> BindOutcomes] : OpenWith(outcome)

Close ==
    /\ ~aborted
    /\ sockets' = CloseAll(sockets)
    /\ last' = [op |-> "Close", ret |-> "void", error |-> NoError, sys |-> {},
                results |-> <<>>, warnings |-> <<>>, asserts |-> {},
                listener |-> 0, accepts |-> <<>>, log |-> <<>>]
    /\ UNCHANGED <<next_serial, fs, ndebug, aborted, calls>>

\* the event loop finds listener i readable: OneServerSocket::OnSocketReady
OnSocketReadyWith(i, peer_fd, keepalive, uid) ==
    /\ ~aborted
    /\ Dispatches(sockets[i])
    /\ \E r \in {Accept(sockets[i], peer_fd, keepalive, uid)} :
          last' = [op |-> "OnSocketReady", ret |-> "true",
                   error |-> NoError, sys |-> {"accept"},
                   results |-> <<>>, warnings |-> <<>>, asserts |-> {},
                   listener |-> i, accepts |-> r.accepts, log |-> r.log]
    /\ UNCHANGED <<sockets, next_serial, fs, ndebug, aborted, calls>>

OnSocketReady ==
    \E i \in 1..Len(sockets), peer_fd \in PeerFds,
       keepalive \in {0, -1}, uid \in PeerUids :
        OnSocketReadyWith(i, peer_fd, keepalive, uid)

Next ==
    AddPort \/ AddHost \/ AddPath \/ AddFD \/ Open \/ Close \/ OnSocketReady

Spec == Init /\ [][Next]_vars

\* the same program started where the local-socket paths may hold a stale
\* socket or a non-empty directory
InitAnyFs ==
    /\ sockets = <<>>
    /\ next_serial = 1
    /\ fs \in [Paths -> {[kind |-> "absent", mode |-> "none"],
                         [kind |-> "socket", mode |-> "umask"],
                         [kind |-> "dir", mode |-> "umask"]}]
    /\ ndebug \in BOOLEAN
    /\ aborted = FALSE
    /\ calls = 0
    /\ last = [op |-> "new", ret |-> "void", error |-> NoError, sys |-> {},
               results |-> <<>>, warnings |-> <<>>, asserts |-> {},
               listener |-> 0, accepts |-> <<>>, log |-> <<>>]

SpecFs == InitAnyFs /\ [][Next]_vars

----------------------------------------------------------------------------
(* Properties *)

N == Len(sockets)

\* ServerSocket::Open was the latest call and it returned (no abort)
OpenReturned == last.op = "Open" /\ last.ret \in {"true", "false"}

\* the error Open reports when listener i is the recorded failure
BindError(i) ==
    ErrorPrefix(ErrorSet(last.results[i]),
                <<"Failed to bind to", ToString(sockets[i])>>)

\* C1: whenever ServerSocket::Open returns failure, no listener of the
\* group is open afterwards, whatever the listeners and bind outcomes
\* were: listeners bound earlier in this Open and listeners that were
\* open before it (AddFD) are closed by the rollback.
C1_FailedOpenLeavesNoneOpen ==
    (last.op = "Open" /\ last.ret = "false")
        => \A i \in 1..N : ~IsDefined(sockets[i]) /\ ~sockets[i].scheduled

\* a failed Open that had bound a listener of an earlier serial, and
\* one that found an AddFD listener in the group
C1_Witness ==
    /\ last.op = "Open" /\ last.ret = "false"
    /\ \E i \in 1..N : last.results[i] = "ok" /\ sockets[i].wasClosed

\* the group holds the listeners of one successful AddPort call only
SingleAddPort ==
    /\ calls = 1
    /\ N >= 1
    /\ \A i \in 1..N : sockets[i].req = [n |-> 1, by |-> "AddPort"]

\* C2: for a group populated by a single AddPort call with a valid port,
\* Open succeeds if at least one of the IPv6/IPv4 listeners binds and
\* fails iff all of them fail; the error of a failed Open is that of the
\* first-attempted listener: IPv6 when the probe reported support,
\* otherwise IPv4.
C2_SingleAddPortOpen ==
    (OpenReturned /\ SingleAddPort) =>
        /\ N <= 2
        /\ \E port \in PortInputs :
              /\ port >= 1 /\ port <= 65535
              /\ sockets[N].address = InetAny(port)
              /\ N = 2 => sockets[1].address = Inet6Any(port)
        /\ (last.ret = "true") <=> (\E i \in 1..N : last.results[i] = "ok")
        /\ (last.ret = "false") <=> (\A i \in 1..N : last.results[i] \in Errnos)
        /\ last.ret = "false" => last.error = BindError(1)

\* Open failed on the IPv6 + IPv4 pair of one AddPort call
C2_Witness ==
    /\ OpenReturned /\ SingleAddPort
    /\ N = 2 /\ last.ret = "false"
    /\ sockets[1].address.family = "inet6"

\* the listeners that add-request call n produced
ListenersOf(n) == {i \in 1..N : sockets[i].req.n = n}

\* C3 (as claimed): if every listener produced by some one AddPort,
\* AddHost or AddPath call fails to bind, Open returns failure, even when
\* listeners of other add-requests bind.
C3_FailureForgivenOnlyBySibling ==
    OpenReturned =>
        \A n \in 1..calls :
            (/\ ListenersOf(n) # {}
             /\ \A i \in ListenersOf(n) :
                    /\ sockets[i].req.by # "AddFD"
                    /\ last.results[i] \in Errnos)
                => last.ret = "false"

\* C4 (as claimed): listeners of two different AddPort / AddHost / AddPath
\* calls never carry the same serial, and the listeners of one call all
\* carry the same serial.
C4_FreshSerialPerRequest ==
    \A i, j \in 1..N :
        (sockets[i].req.by # "AddFD" /\ sockets[j].req.by # "AddFD") =>
            ((sockets[i].req.n = sockets[j].req.n)
                <=> (sockets[i].serial = sockets[j].serial))

\* the listeners carrying serial g
SerialGroup(g) == {i \in 1..N : sockets[i].serial = g}

\* the first listener of a non-empty set, in insertion order
First(S) == CHOOSE i \in S : \A j \in S : i <= j

\* C5: when Open returns and a serial group had bind attempts of which
\* none succeeded, Open returned failure with the error recorded for the
\* first listener of that group that failed, carrying the textual form of
\* that listener's address (no later sibling's error replaces it), and a
\* Close that follows leaves zero open listeners.
C5_FirstFailureOfGroupReported ==
    /\ [](OpenReturned =>
            \A g \in {sockets[i].serial : i \in 1..N} :
                LET failed == {i \in SerialGroup(g) : last.results[i] \in Errnos}
                IN  (failed # {} /\ \A i \in SerialGroup(g) : last.results[i] # "ok")
                        => /\ last.ret = "false"
                           /\ last.error = BindError(First(failed))
                           /\ last.error.prefix[1][2] = ToString(sockets[First(failed)]))
    /\ [][(last.op = "Open" /\ last.ret = "false" /\ last'.op = "Close")
            => \A i \in 1..Len(sockets') : ~IsDefined(sockets'[i])]_vars

\* Open failed on a serial group of two listeners that both failed
C5_Witness ==
    /\ last.op = "Open" /\ last.ret = "false"
    /\ \E i, j \in 1..N :
          /\ i < j /\ sockets[i].serial = sockets[j].serial
          /\ last.results[i] \in Errnos /\ last.results[j] \in Errnos

\* C6: Close never fails and is idempotent: after it no listener is open,
\* and on a group with no open listener (never opened, already closed,
\* or left by a failed Open) it changes nothing.
C6_CloseIdempotent ==
    [][last'.op = "Close" =>
        /\ \A i \in 1..Len(sockets') :
              ~IsDefined(sockets'[i]) /\ ~sockets'[i].scheduled
        /\ ~aborted'
        /\ (\A i \in 1..N : ~IsDefined(sockets[i]))
              => /\ sockets' = sockets
                 /\ UNCHANGED <<next_serial, fs, calls>>]_vars

\* Close has closed listeners that an Open had bound
C6_Witness ==
    /\ last.op = "Close"
    /\ N >= 2
    /\ \A i \in 1..N : sockets[i].wasClosed /\ ~IsDefined(sockets[i])

\* C7 (as claimed): the per-listener Open is attempted only on unopened
\* listeners, so its assert(!IsDefined()) is never violated.
C7_OpenBindsOnlyUnopened ==
    last.op = "Open" => "!IsDefined()" \notin last.asserts

\* C8: an AddFD whose getsockname() succeeds appends exactly one listener,
\* already open and registered for reading, without a call to Open, and
\* leaves next_serial alone; an AddFD whose getsockname() fails reports
\* an error and appends nothing.
C8_AddFDAppendsOpenListener ==
    [][last'.op = "AddFD" =>
        /\ next_serial' = next_serial
        /\ last'.ret = "true" =>
              /\ Len(sockets') = N + 1
              /\ SubSeq(sockets', 1, N) = sockets
              /\ IsDefined(sockets'[N + 1]) /\ sockets'[N + 1].scheduled
              /\ sockets'[N + 1].address \in FdAddresses
        /\ last'.ret # "true" =>
              /\ last'.ret = "false" /\ last'.error.defined
              /\ sockets' = sockets]_vars

\* AddFD has appended an open listener to a group that was never opened
C8_Witness ==
    /\ last.op = "AddFD" /\ last.ret = "true"
    /\ IsDefined(sockets[N]) /\ sockets[N].scheduled
    /\ ~sockets[N].wasClosed

\* C9: AddPort with port 0 or a port above 65535 fails with the
\* invalid-port error and leaves the group as it was: no listener is
\* appended, no socket is created, next_serial keeps its value.
C9_InvalidPortRejected ==
    [][\A port \in PortInputs, ipv6 \in BOOLEAN :
        ((port = 0 \/ port > 65535) /\ AddPortWith(port, ipv6)) =>
            /\ last'.ret = "false"
            /\ last'.error = ErrorSet("Invalid TCP port")
            /\ "socket" \notin last'.sys
            /\ sockets' = sockets
            /\ next_serial' = next_serial]_vars

\* AddPort has rejected a port on a group that holds listeners
C9_Witness ==
    /\ last.op = "AddPort" /\ last.ret = "false"
    /\ N >= 1

\* C10 (as claimed): once a listener has gone from open to closed (by
\* Close or by the rollback of a failed Open) it is never open again;
\* stated for the builds that keep assert(), where every bind attempt
\* is made on an unopened listener.
C10_NeverReopened ==
    ~ndebug => \A i \in 1..N : sockets[i].wasClosed => ~IsDefined(sockets[i])

\* C10 (amended): a listener that has gone from open to closed stays
\* closed until a later ServerSocket::Open binds that same listener
\* again; nothing but a successful bind in Open re-opens it.
C10_ReopenedOnlyByOpen ==
    [][\A i \in 1..N :
        (sockets[i].wasClosed /\ ~IsDefined(sockets[i])
            /\ i <= Len(sockets') /\ IsDefined(sockets'[i]))
        => (last'.op = "Open" /\ last'.results[i] = "ok")]_vars

\* an Open has bound again a listener that had been closed
C10_Witness ==
    /\ last.op = "Open" /\ last.ret = "true"
    /\ \E i \in 1..N :
          sockets[i].wasClosed /\ IsDefined(sockets[i]) /\ last.results[i] = "ok"

\* C11 (as claimed): AddPath removes a pre-existing entry at the path and
\* succeeds when the removal succeeds or there is no entry; when the
\* removal fails for another reason (a non-empty directory) AddPath
\* fails with an error and appends no listener.
C11_AddPathFailsOnUnremovable ==
    [][\A path \in Paths :
        AddPathWith(path) =>
            IF fs[path].kind = "dir"
            THEN /\ last'.ret = "false" /\ last'.error.defined
                 /\ sockets' = sockets
            ELSE /\ last'.ret = "true"
                 /\ fs'[path].kind = "absent"
                 /\ Len(sockets') = N + 1]_vars

\* C12 (as claimed): whenever Open returns success although some listener
\* failed to bind, a warning naming the failed listener's address and the
\* address of a sibling that succeeded is emitted for each such failed
\* listener, whether the failure came before or after the success.
C12_EveryForgivenFailureWarned ==
    (OpenReturned /\ last.ret = "true") =>
        \A i \in 1..N :
            last.results[i] \in Errnos =>
                \E k \in 1..Len(last.warnings), j \in 1..N :
                    /\ last.results[j] = "ok"
                    /\ sockets[j].serial = sockets[i].serial
                    /\ last.warnings[k].failed = ToString(sockets[i])
                    /\ last.warnings[k].good = ToString(sockets[j])

\* C13: next_serial starts at 1 and never decreases; in every reachable
\* state the listeners' serials are greater than 0, non-decreasing in
\* insertion order and never above next_serial; hence the two asserts at
\* the head of Open's loop hold for every list the add-requests build.
C13_SerialsOrdered ==
    /\ next_serial = 1
    /\ [](/\ \A i \in 1..N : sockets[i].serial > 0
                              /\ sockets[i].serial <= next_serial
          /\ \A i, j \in 1..N : i < j => sockets[i].serial <= sockets[j].serial
          /\ last.op = "Open" =>
                last.asserts \cap {"serial > 0", "serial >= good"} = {})
    /\ [][next_serial' >= next_serial]_vars

\* Open's loop has passed both asserts on a list of two serials, built
\* with AddFD in it, after the first listener had become the good one
C13_Witness ==
    /\ OpenReturned /\ N >= 2
    /\ sockets[1].serial < sockets[N].serial
    /\ last.results[1] = "ok" /\ last.results[N] # "none"
    /\ \E i \in 1..N : sockets[i].req.by = "AddFD"

\* C14 (as claimed): once a listener has been closed, no readiness
\* callback runs for it; stated for the builds that keep assert(), where
\* every bind attempt is made on an unopened listener.
C14_NoEventOnceClosed ==
    (~ndebug /\ last.op = "OnSocketReady")
        => ~sockets[last.listener].wasClosed

\* C14 (amended): no readiness callback runs, and OnAccept is not
\* invoked, for a listener while it is closed: every callback is for a
\* listener that is open and registered when the event fires.
C14_NoEventWhileClosed ==
    last.op = "OnSocketReady" =>
        /\ last.listener \in 1..N
        /\ IsDefined(sockets[last.listener])
        /\ sockets[last.listener].scheduled

\* an event has fired for an open listener while another listener of the
\* group was closed after having been open
C14_Witness ==
    /\ last.op = "OnSocketReady" /\ last.accepts # <<>>
    /\ \E j \in 1..N : sockets[j].wasClosed /\ ~IsDefined(sockets[j])

\* listeners i and j lie in one maximal run of equal serials
SameRun(socks, i, j) ==
    \A k \in 1..Len(socks) :
        ((i <= k /\ k <= j) \/ (j <= k /\ k <= i))
            => socks[k].serial = socks[i].serial

\* C15: when Open is called with every listener unopened and returns,
\* it returns success iff every maximal run of consecutive listeners
\* with equal serial holds a listener whose bind succeeds, wherever in
\* the run that listener stands; on success exactly the listeners whose
\* bind succeeded are open.
C15_ResultPerSerialRun ==
    [][\A outcome \in [1..N -> BindOutcomes] :
        (/\ OpenWith(outcome)
         /\ \A i \in 1..N : ~IsDefined(sockets[i])
         /\ last'.ret \in {"true", "false"}
         /\ \A i \in 1..N :
               last'.results[i] # "none" => last'.results[i] = outcome[i])
        => /\ (last'.ret = "true") <=>
                 (\A i \in 1..N : \E j \in 1..N :
                     SameRun(sockets, i, j) /\ outcome[j] = "ok")
           /\ last'.ret = "true" =>
                 \A i \in 1..N :
                     IsDefined(sockets'[i]) <=> (outcome[i] = "ok")]_vars

\* Open succeeded on a run of two where the first bind failed and the
\* second succeeded
C15_Witness ==
    /\ OpenReturned /\ last.ret = "true"
    /\ \E i, j \in 1..N :
          /\ i < j /\ SameRun(sockets, i, j)
          /\ last.results[i] \in Errnos /\ ~IsDefined(sockets[i])
          /\ last.results[j] = "ok" /\ IsDefined(sockets[j])

\* the listeners whose bind failed in a serial group without any success
Unforgiven ==
    {i \in 1..N :
        /\ last.results[i] \in Errnos
        /\ \A j \in SerialGroup(sockets[i].serial) : last.results[j] # "ok"}

\* C16: a failed Open stops at the first serial boundary after a group
\* without success: every listener of that group was attempted, no bind
\* was attempted on any listener of a later serial, and the error is the
\* one stored for that group.
C16_StopsAtSerialBoundary ==
    (OpenReturned /\ last.ret = "false") =>
        /\ Unforgiven # {}
        /\ \A j \in 1..N :
              IF sockets[j].serial = sockets[First(Unforgiven)].serial
              THEN last.results[j] \in Errnos
              ELSE j > First(Unforgiven) => last.results[j] = "none"
        /\ last.error = BindError(First(Unforgiven))

\* Open failed on the first serial and left the listener of the second
\* serial untried
C16_Witness ==
    /\ OpenReturned /\ last.ret = "false" /\ N >= 2
    /\ sockets[1].serial < sockets[N].serial
    /\ last.results[1] \in Errnos /\ last.results[N] = "none"

\* C17: a readiness event never changes listener state: a failed accept
\* makes no OnAccept call, a successful accept makes exactly one, with
\* the accepted descriptor, also when socket_keepalive() fails; the
\* listener stays open and registered and the list is as it was.
C17_AcceptKeepsListener ==
    [][\A i \in 1..N, peer_fd \in PeerFds, keepalive \in {0, -1},
          uid \in PeerUids :
        OnSocketReadyWith(i, peer_fd, keepalive, uid) =>
            /\ sockets' = sockets
            /\ IsDefined(sockets'[i]) /\ sockets'[i].scheduled
            /\ ~aborted'
            /\ peer_fd < 0 => last'.accepts = <<>>
            /\ peer_fd >= 0 =>
                  last'.accepts = <<[fd |-> peer_fd, uid |-> uid]>>]_vars

\* a connection was handed to OnAccept although setting keepalive failed
C17_Witness ==
    /\ last.op = "OnSocketReady"
    /\ Len(last.accepts) = 1
    /\ last.log = <<"Could not set TCP keepalive option">>

\* C18: Open, Close and the accept path leave the structure of the group
\* alone: no listener is added, removed or reordered, no serial or
\* address changes, and next_serial keeps its value; only the
\* add-request calls change the list or next_serial.
C18_StructureFrame ==
    [][last'.op \in {"Open", "Close", "OnSocketReady"} =>
        /\ Len(sockets') = N
        /\ next_serial' = next_serial
        /\ calls' = calls
        /\ \A i \in 1..N :
              /\ sockets'[i].serial = sockets[i].serial
              /\ sockets'[i].address = sockets[i].address
              /\ sockets'[i].path = sockets[i].path
              /\ sockets'[i].req = sockets[i].req]_vars

\* a failed Open has rolled back a list of two listeners
C18_Witness ==
    /\ last.op = "Open" /\ last.ret = "false" /\ N = 2
    /\ \E i \in 1..N : last.results[i] = "ok" /\ sockets[i].wasClosed

\* C19: AddHost whose resolution fails returns the resolver's error,
\* appends nothing and leaves next_serial alone; AddHost whose resolution
\* succeeds appends one unopened listener per resolved address, in
\* resolver order, all under one serial, and advances next_serial by one.
C19_AddHostAtomic ==
    [][\A port \in HostPorts :
        /\ AddHostWith(port, <<>>, ErrorSet("EAI_NONAME")) =>
              /\ last'.ret = "false"
              /\ last'.error = ErrorSet("EAI_NONAME")
              /\ sockets' = sockets
              /\ next_serial' = next_serial
        /\ \A ai \in ResolverResults(port) :
              AddHostWith(port, ai, NoError) =>
                  /\ last'.ret = "true"
                  /\ Len(sockets') = N + Len(ai)
                  /\ SubSeq(sockets', 1, N) = sockets
                  /\ \A k \in 1..Len(ai) :
                        /\ sockets'[N + k].address = ai[k]
                        /\ sockets'[N + k].serial = next_serial
                        /\ ~IsDefined(sockets'[N + k])
                        /\ ~sockets'[N + k].scheduled
                  /\ next_serial' = next_serial + 1]_vars

\* AddHost has appended the listeners of two resolved addresses
C19_Witness ==
    /\ last.op = "AddHost" /\ last.ret = "true" /\ N = 2
    /\ sockets[1].req = sockets[2].req /\ sockets[1].req.by = "AddHost"
    /\ sockets[1].address.family = "inet6"
    /\ sockets[2].address.family = "inet"

\* C20: after a successful bind of a listener created by AddPath the
\* entry at its path has mode 0666; Open changes the filesystem only at
\* the path of a listener that carries a path and whose bind succeeded,
\* never for a TCP or AddFD listener and never when the bind failed.
C20_PathMode0666 ==
    /\ [](last.op = "Open" =>
            \A i \in 1..N :
                (sockets[i].path # "" /\ last.results[i] = "ok")
                    => fs[sockets[i].path] = [kind |-> "socket", mode |-> "0666"])
    /\ [][last'.op = "Open" =>
            \A p \in Paths :
                fs'[p] # fs[p] =>
                    \E i \in 1..N :
                        /\ sockets[i].path = p
                        /\ sockets[i].req.by = "AddPath"
                        /\ last'.results[i] = "ok"]_vars

\* Open has bound an AddPath listener next to a TCP listener
C20_Witness ==
    /\ last.op = "Open" /\ N = 2
    /\ \E i, j \in 1..N :
          /\ sockets[i].req.by = "AddPath" /\ last.results[i] = "ok"
          /\ fs[sockets[i].path].mode = "0666"
          /\ sockets[j].path = "" /\ last.results[j] = "ok"

====
